---- MODULE Spec2Model ----
(***************************************************************************)
(* Model of the spraite sprite pipeline core.                               *)
(*   Spec       the atlas packer (src/processor/packer.js): the frame      *)
(*              batch collected by generateSprites, and packFrames with    *)
(*              calculateLayout, nextPowerOfTwo, generatePhaserAtlas and   *)
(*              generateAnimationsJson.                                    *)
(*   SpecImage  the PNG validator and background fixer                     *)
(*              (src/validator/png-validator.js).                          *)
(*   SpecSlice  the strip and grid slicer (src/processor/slicer.js).       *)
(*   SpecRetry  generateImageWithRetry (src/generator).                    *)
(*   SpecRun    the generate command: generateSprites and                  *)
(*              generateAnimation (src/index.js, src/cli.js).              *)
(***************************************************************************)
EXTENDS Integers, Sequences, FiniteSets, TLC

VARIABLES allFrames, packOptions, packPc, packResult, packError

\* Validator / fixer: the buffer under test, the call made on it and its outcome.
VARIABLES imgBuffer, imgPc, imgArgs, imgReport, imgFixed

\* Slicer: the arguments of the call and the frames it returned.
VARIABLES sliceArgs, slicePc, sliceFrames

\* generateImageWithRetry: configuration, loop position and history.
VARIABLES retryCfg, retryPc, retryAttempt, retryLog, retryLastError, retryOutcome

\* One run of the generate command
VARIABLES runArgs, runPc, runIndex, runLog, runFiles, runOutcome

packVars == <<allFrames, packOptions, packPc, packResult, packError>>

imgVars == <<imgBuffer, imgPc, imgArgs, imgReport, imgFixed>>

sliceVars == <<sliceArgs, slicePc, sliceFrames>>

retryVars ==
  <<retryCfg, retryPc, retryAttempt, retryLog, retryLastError, retryOutcome>>

runVars == <<runArgs, runPc, runIndex, runLog, runFiles, runOutcome>>

vars == <<packVars, imgVars, sliceVars, retryVars, runVars>>

\* Values of a component's variables while that component is not running.
Idle == [status |-> "idle"]

PackIdle ==
  /\ allFrames = <<>>
  /\ packOptions = [padding |-> 1, maxWidth |-> 2048, powerOfTwo |-> FALSE]
  /\ packPc = "collecting"
  /\ packResult = [status |-> "none"]
  /\ packError = ""

ImgIdle ==
  /\ imgBuffer = Idle
  /\ imgPc = "idle"
  /\ imgArgs = Idle
  /\ imgReport = Idle
  /\ imgFixed = Idle

SliceIdle ==
  /\ sliceArgs = Idle
  /\ slicePc = "idle"
  /\ sliceFrames = <<>>

RetryIdle ==
  /\ retryCfg = Idle
  /\ retryPc = "idle"
  /\ retryAttempt = 0
  /\ retryLog = <<>>
  /\ retryLastError = ""
  /\ retryOutcome = Idle

RunIdle ==
  /\ runArgs = Idle
  /\ runPc = "idle"
  /\ runIndex = 0
  /\ runLog = <<>>
  /\ runFiles = {}
  /\ runOutcome = Idle

(* ---------------------------------------------------------------------- *)
(* Input domains                                                           *)
(* ---------------------------------------------------------------------- *)

\* Largest batch handed to the packer.
MaxFrames == 4

\* A FrameData object.  name = "" and animation = "" stand for an absent
\* (falsy) property, fps = 0 for an absent fps.  buffer identifies the pixels.
Frame(name, anim, idx, w, h, fps) ==
  [name |-> name, buffer |-> <<anim, idx, w, h>>, width |-> w, height |-> h,
   animation |-> anim, frameIndex |-> idx, fps |-> fps]

FramePool ==
  { Frame("idle_0", "idle", 0, 64, 64, 8),
    Frame("idle_1", "idle", 1, 64, 64, 8),
    Frame("idle_2", "idle", 2, 64, 64, 8),
    Frame("idle_3", "idle", 3, 64, 64, 8),
    Frame("walk_0", "walk", 0, 256, 32, 0),
    Frame("",       "walk", 1, 32, 128, 12),
    Frame("logo",   "",     0, 100, 64, 0),
    Frame("jump_0", "jump", 0, 198, 62, 24) }

Paddings == {0, 1, 2}

MaxWidths == {100, 200, 2048}

PackOptions ==
  [padding : Paddings, maxWidth : MaxWidths, powerOfTwo : BOOLEAN]

NoResult == [status |-> "none"]

(* ---------------------------------------------------------------------- *)
(* Helpers                                                                 *)
(* ---------------------------------------------------------------------- *)

Max(a, b) == IF a > b THEN a ELSE b

\* frame.name || `${frame.animation}_${frame.frameIndex}`
FrameName(frame) ==
  IF frame.name # "" THEN frame.name
  ELSE frame.animation \o "_" \o ToString(frame.frameIndex)

\* comparator of the layout sort: (a, b) => b.height - a.height
CompareHeight(a, b) == b.height - a.height

\* comparator of the animation sort: (a, b) => a.frame - b.frame
CompareFrameIndex(a, b) == a.frame - b.frame

\* Array.prototype.sort is stable: x goes after every element that does not
\* compare greater than it.
RECURSIVE InsertByHeight(_, _)
InsertByHeight(s, x) ==
  IF s = <<>> THEN <<x>>
  ELSE IF CompareHeight(Head(s), x) > 0 THEN <<x>> \o s
  ELSE <<Head(s)>> \o InsertByHeight(Tail(s), x)

RECURSIVE SortByHeight(_)
SortByHeight(s) ==
  IF s = <<>> THEN <<>>
  ELSE InsertByHeight(SortByHeight(SubSeq(s, 1, Len(s) - 1)), s[Len(s)])

RECURSIVE InsertByFrameIndex(_, _)
InsertByFrameIndex(s, x) ==
  IF s = <<>> THEN <<x>>
  ELSE IF CompareFrameIndex(Head(s), x) > 0 THEN <<x>> \o s
  ELSE <<Head(s)>> \o InsertByFrameIndex(Tail(s), x)

\* Variant: the per-animation sort is left out.
SortByFrameIndex_NoSort(s) == s

RECURSIVE SortByFrameIndex(_)
SortByFrameIndex(s) ==
  IF s = <<>> THEN <<>>
  ELSE InsertByFrameIndex(SortByFrameIndex(SubSeq(s, 1, Len(s) - 1)), s[Len(s)])

(* ---------------------------------------------------------------------- *)
(* calculateLayout                                                         *)
(* ---------------------------------------------------------------------- *)

\* Variant: the cursor starts at the sheet origin instead of at the padding.
LayoutInit_ZeroOrigin(padding) ==
  [positions |-> <<>>, currentX |-> 0, currentY |-> 0,
   rowHeight |-> 0, sheetWidth |-> 0, sheetHeight |-> 0]

LayoutInit(padding) ==
  [positions |-> <<>>, currentX |-> padding, currentY |-> padding,
   rowHeight |-> 0, sheetWidth |-> 0, sheetHeight |-> 0]

\* Variant: a new row advances currentY by the padding only.
LayoutStep_RowAdvanceNoHeight(st, frame, padding, maxWidth) ==
  LET newRow == st.currentX + frame.width + padding > maxWidth
      x == IF newRow THEN padding ELSE st.currentX
      y == IF newRow THEN st.currentY + padding ELSE st.currentY
      rh == IF newRow THEN 0 ELSE st.rowHeight
      nextX == x + frame.width + padding
      nextRh == Max(rh, frame.height)
  IN [positions |-> Append(st.positions, [x |-> x, y |-> y]),
      currentX |-> nextX,
      currentY |-> y,
      rowHeight |-> nextRh,
      sheetWidth |-> Max(st.sheetWidth, nextX),
      sheetHeight |-> Max(st.sheetHeight, y + nextRh + padding)]

\* Variant: the row-fit test leaves out the trailing padding.
LayoutStep_FitIgnoresPadding(st, frame, padding, maxWidth) ==
  LET newRow == st.currentX + frame.width > maxWidth
      x == IF newRow THEN padding ELSE st.currentX
      y == IF newRow THEN st.currentY + st.rowHeight + padding ELSE st.currentY
      rh == IF newRow THEN 0 ELSE st.rowHeight
      nextX == x + frame.width + padding
      nextRh == Max(rh, frame.height)
  IN [positions |-> Append(st.positions, [x |-> x, y |-> y]),
      currentX |-> nextX,
      currentY |-> y,
      rowHeight |-> nextRh,
      sheetWidth |-> Max(st.sheetWidth, nextX),
      sheetHeight |-> Max(st.sheetHeight, y + nextRh + padding)]

\* Variant: the sheet height leaves out the padding below the row.
LayoutStep_NoTrailingPadding(st, frame, padding, maxWidth) ==
  LET newRow == st.currentX + frame.width + padding > maxWidth
      x == IF newRow THEN padding ELSE st.currentX
      y == IF newRow THEN st.currentY + st.rowHeight + padding ELSE st.currentY
      rh == IF newRow THEN 0 ELSE st.rowHeight
      nextX == x + frame.width + padding
      nextRh == Max(rh, frame.height)
  IN [positions |-> Append(st.positions, [x |-> x, y |-> y]),
      currentX |-> nextX,
      currentY |-> y,
      rowHeight |-> nextRh,
      sheetWidth |-> Max(st.sheetWidth, nextX),
      sheetHeight |-> Max(st.sheetHeight, y + nextRh)]

\* Variant: a row that holds no frame yet is never left.
LayoutStep_KeepEmptyRow(st, frame, padding, maxWidth) ==
  LET newRow == /\ st.currentX + frame.width + padding > maxWidth
                /\ st.currentX > padding
      x == IF newRow THEN padding ELSE st.currentX
      y == IF newRow THEN st.currentY + st.rowHeight + padding ELSE st.currentY
      rh == IF newRow THEN 0 ELSE st.rowHeight
      nextX == x + frame.width + padding
      nextRh == Max(rh, frame.height)
  IN [positions |-> Append(st.positions, [x |-> x, y |-> y]),
      currentX |-> nextX,
      currentY |-> y,
      rowHeight |-> nextRh,
      sheetWidth |-> Max(st.sheetWidth, nextX),
      sheetHeight |-> Max(st.sheetHeight, y + nextRh + padding)]

\* One iteration of the for-loop over the frames.
LayoutStep(st, frame, padding, maxWidth) ==
  LET newRow == st.currentX + frame.width + padding > maxWidth
      x == IF newRow THEN padding ELSE st.currentX
      y == IF newRow THEN st.currentY + st.rowHeight + padding ELSE st.currentY
      rh == IF newRow THEN 0 ELSE st.rowHeight
      nextX == x + frame.width + padding
      nextRh == Max(rh, frame.height)
  IN [positions |-> Append(st.positions, [x |-> x, y |-> y]),
      currentX |-> nextX,
      currentY |-> y,
      rowHeight |-> nextRh,
      sheetWidth |-> Max(st.sheetWidth, nextX),
      sheetHeight |-> Max(st.sheetHeight, y + nextRh + padding)]

RECURSIVE LayoutLoop(_, _, _, _)
LayoutLoop(st, frames, padding, maxWidth) ==
  IF frames = <<>> THEN st
  ELSE LayoutLoop(LayoutStep(st, Head(frames), padding, maxWidth),
                  Tail(frames), padding, maxWidth)

calculateLayout(frames, padding, maxWidth) ==
  LET st == LayoutLoop(LayoutInit(padding), frames, padding, maxWidth)
  IN [positions |-> st.positions, width |-> st.sheetWidth,
      height |-> st.sheetHeight]

(* ---------------------------------------------------------------------- *)
(* nextPowerOfTwo                                                          *)
(* ---------------------------------------------------------------------- *)

RECURSIVE PowerLoop(_, _)
PowerLoop(power, n) == IF power < n THEN PowerLoop(power * 2, n) ELSE power

RECURSIVE PowerLoopStrict(_, _)
PowerLoopStrict(power, n) ==
  IF power <= n THEN PowerLoopStrict(power * 2, n) ELSE power

\* Variant: the loop test is power <= n, so an exact power of two is doubled.
nextPowerOfTwo_Strict(n) == PowerLoopStrict(1, n)

nextPowerOfTwo(n) == PowerLoop(1, n)

(* ---------------------------------------------------------------------- *)
(* generatePhaserAtlas                                                     *)
(* ---------------------------------------------------------------------- *)

AtlasEntry(frame, pos) ==
  [frame |-> [x |-> pos.x, y |-> pos.y, w |-> frame.width, h |-> frame.height],
   rotated |-> FALSE,
   trimmed |-> FALSE,
   spriteSourceSize |-> [x |-> 0, y |-> 0, w |-> frame.width, h |-> frame.height],
   sourceSize |-> [w |-> frame.width, h |-> frame.height]]

\* atlas.frames[frameName] = ... in forEach order: a later frame with the same
\* name overwrites an earlier one.
generatePhaserAtlas(frames, positions, size) ==
  LET names == { FrameName(frames[i]) : i \in 1..Len(frames) }
      last(n) == CHOOSE i \in 1..Len(frames) :
                   /\ FrameName(frames[i]) = n
                   /\ \A j \in 1..Len(frames) :
                        FrameName(frames[j]) = n => j <= i
  IN [frames |-> [n \in names |-> AtlasEntry(frames[last(n)], positions[last(n)])],
      meta |-> [app |-> "spraite", version |-> "1.0.0", image |-> "",
                format |-> "RGBA8888",
                size |-> [w |-> size.width, h |-> size.height],
                scale |-> "1"]]

(* ---------------------------------------------------------------------- *)
(* generateAnimationsJson                                                  *)
(* ---------------------------------------------------------------------- *)

AnimationRef(frame) == [key |-> FrameName(frame), frame |-> frame.frameIndex]

RECURSIVE MapAnimationRef(_)
MapAnimationRef(s) ==
  IF s = <<>> THEN <<>> ELSE <<AnimationRef(Head(s))>> \o MapAnimationRef(Tail(s))

generateAnimationsJson(frames) ==
  LET animNames == { frames[i].animation : i \in 1..Len(frames) } \ {""}
      members(a) == SelectSeq(frames, LAMBDA f : f.animation = a)
  IN [a \in animNames |->
        [fps |-> IF Head(members(a)).fps # 0 THEN Head(members(a)).fps ELSE 10,
         frames |-> SortByFrameIndex(MapAnimationRef(members(a))),
         loop |-> TRUE]]

(* ---------------------------------------------------------------------- *)
(* packFrames                                                              *)
(* ---------------------------------------------------------------------- *)

Composites(sortedFrames, positions) ==
  [i \in 1..Len(positions) |->
     [input |-> sortedFrames[i].buffer, left |-> positions[i].x,
      top |-> positions[i].y]]

\* Variant: frames.sort(...) sorts the caller's array itself.
SortedCopy_InPlace(frames) ==
  [sorted |-> SortByHeight(frames), input |-> SortByHeight(frames)]

\* [...frames].sort(...): the sort works on a copy; input is the caller's
\* array as the call leaves it.
SortedCopy(frames) == [sorted |-> SortByHeight(frames), input |-> frames]

\* Lines 49-93: the body of packFrames after the empty-input guard.
PackNonEmpty(frames, options) ==
  LET copy == SortedCopy(frames)
      sortedFrames == copy.sorted
      layout == calculateLayout(sortedFrames, options.padding, options.maxWidth)
      width == IF options.powerOfTwo THEN nextPowerOfTwo(layout.width)
               ELSE layout.width
      height == IF options.powerOfTwo THEN nextPowerOfTwo(layout.height)
                ELSE layout.height
  IN [status |-> "returned",
      frames |-> copy.input,
      sortedFrames |-> sortedFrames,
      layout |-> layout,
      image |-> [width |-> width, height |-> height,
                 composites |-> Composites(sortedFrames, layout.positions)],
      atlas |-> generatePhaserAtlas(sortedFrames, layout.positions,
                                    [width |-> width, height |-> height]),
      animations |-> generateAnimationsJson(copy.input)]

\* Variant: the atlas is generated from the caller's frame order instead of
\* the height-sorted order the positions belong to.
packFrames_AtlasFromInputOrder(frames, options) ==
  IF Len(frames) = 0
  THEN [status |-> "threw", error |-> "No frames to pack"]
  ELSE LET r == PackNonEmpty(frames, options)
       IN [r EXCEPT !.atlas =
             generatePhaserAtlas(frames, r.layout.positions,
                                 [width |-> r.image.width,
                                  height |-> r.image.height])]

\* Variant: a batch holding a frame wider than maxWidth is rejected.
packFrames_RejectOversized(frames, options) ==
  IF Len(frames) = 0
  THEN [status |-> "threw", error |-> "No frames to pack"]
  ELSE IF \E i \in 1..Len(frames) : frames[i].width > options.maxWidth
  THEN [status |-> "threw", error |-> "Frame exceeds maxWidth"]
  ELSE PackNonEmpty(frames, options)

\* Variant: the empty-input guard is missing.
packFrames_NoGuard(frames, options) == PackNonEmpty(frames, options)

packFrames(frames, options) ==
  IF Len(frames) = 0
  THEN [status |-> "threw", error |-> "No frames to pack"]
  ELSE PackNonEmpty(frames, options)

(* ---------------------------------------------------------------------- *)
(* State machine                                                           *)
(* ---------------------------------------------------------------------- *)

Init ==
  /\ allFrames = <<>>
  /\ packOptions = [padding |-> 1, maxWidth |-> 2048, powerOfTwo |-> FALSE]
  /\ packPc = "collecting"
  /\ packResult = NoResult
  /\ packError = ""
  /\ ImgIdle
  /\ SliceIdle
  /\ RetryIdle
  /\ RunIdle

\* The caller appends a frame to the batch (allFrames.push).  Frame identity
\* (animation, frameIndex) is unique in a batch.
CollectFrame(f) ==
  /\ packPc = "collecting"
  /\ Len(allFrames) < MaxFrames
  /\ \A i \in 1..Len(allFrames) :
       <<allFrames[i].animation, allFrames[i].frameIndex>>
         # <<f.animation, f.frameIndex>>
  /\ allFrames' = Append(allFrames, f)
  /\ UNCHANGED <<packOptions, packPc, packResult, packError>>
  /\ UNCHANGED <<imgVars, sliceVars, retryVars, runVars>>

\* One call packFrames(allFrames, options), run to its return or throw.
PackFrames(options) ==
  /\ packPc = "collecting"
  /\ LET r == packFrames(allFrames, options)
     IN /\ packOptions' = options
        /\ IF r.status = "threw"
           THEN /\ packPc' = "failed"
                /\ packError' = r.error
                /\ packResult' = NoResult
           ELSE /\ packPc' = "done"
                /\ packError' = ""
                /\ packResult' = r
        /\ allFrames' = IF r.status = "threw" THEN allFrames ELSE r.frames
  /\ UNCHANGED <<imgVars, sliceVars, retryVars, runVars>>

Next ==
  \/ \E f \in FramePool : CollectFrame(f)
  \/ \E options \in PackOptions : PackFrames(options)

Spec == Init /\ [][Next]_vars

(* ---------------------------------------------------------------------- *)
(* Properties of the packer                                                *)
(* ---------------------------------------------------------------------- *)

Done == packPc = "done"

InputFrames == { allFrames[i] : i \in 1..Len(allFrames) }

AtlasNames == DOMAIN packResult.atlas.frames

Rect(n) == packResult.atlas.frames[n].frame

Positions == packResult.layout.positions

\* Number of distinct rows (distinct y) of the layout.
RowCount == Cardinality({ Positions[i].y : i \in 1..Len(Positions) })

Intersect(a, b) ==
  /\ a.x < b.x + b.w
  /\ b.x < a.x + a.w
  /\ a.y < b.y + b.h
  /\ b.y < a.y + a.h

\* a and b are at least gap apart: side by side when they share a row (same
\* y), one above the other otherwise.
Separated(a, b, gap) ==
  IF a.y = b.y
  THEN a.x + a.w + gap <= b.x \/ b.x + b.w + gap <= a.x
  ELSE a.y + a.h + gap <= b.y \/ b.y + b.h + gap <= a.y

\* C1: the rectangles packFrames assigns to two distinct frames never
\* intersect and are at least `padding` apart (horizontally within a row,
\* vertically across rows).
C1_NoOverlap ==
  Done =>
    \A n \in AtlasNames : \A m \in AtlasNames :
      n # m =>
        /\ ~Intersect(Rect(n), Rect(m))
        /\ Separated(Rect(n), Rect(m), packOptions.padding)

\* A packed batch with a positive padding that has two frames sharing a row
\* and two frames in different rows.
C1_Witness ==
  /\ Done
  /\ packOptions.padding > 0
  /\ \E n \in AtlasNames : \E m \in AtlasNames :
       n # m /\ Rect(n).y = Rect(m).y
  /\ \E n \in AtlasNames : \E m \in AtlasNames : Rect(n).y # Rect(m).y

\* Every frame of the batch fits into a row: width + 2 * padding <= maxWidth.
AllFramesFit ==
  \A f \in InputFrames : f.width + 2 * packOptions.padding <= packOptions.maxWidth

WidestFrame ==
  CHOOSE w \in { f.width : f \in InputFrames } :
    \A f \in InputFrames : f.width <= w

IsPowerOfTwo(n) == \E k \in 0..16 : n = 2 ^ k

\* p is the smallest power of two that is >= n.
SmallestPowerAtLeast(p, n) ==
  /\ IsPowerOfTwo(p)
  /\ p >= n
  /\ \A k \in 0..16 : 2 ^ k >= n => p <= 2 ^ k

\* C3: with powerOfTwo the sheet width and height are each the smallest power
\* of two >= the layout's value (202x66 becomes 256x128); without it they are
\* the layout's values.
C3_PowerOfTwoRounding ==
  Done =>
    /\ packOptions.powerOfTwo =>
         /\ SmallestPowerAtLeast(packResult.image.width, packResult.layout.width)
         /\ SmallestPowerAtLeast(packResult.image.height, packResult.layout.height)
    /\ ~packOptions.powerOfTwo =>
         /\ packResult.image.width = packResult.layout.width
         /\ packResult.image.height = packResult.layout.height
    /\ packResult.atlas.meta.size
         = [w |-> packResult.image.width, h |-> packResult.image.height]
    /\ ( /\ packOptions.powerOfTwo
         /\ packResult.layout.width = 202
         /\ packResult.layout.height = 66 )
       => packResult.image.width = 256 /\ packResult.image.height = 128

\* A 202x66 layout rounded to 256x128.
C3_Witness ==
  /\ Done
  /\ packOptions.powerOfTwo
  /\ packResult.layout.width = 202
  /\ packResult.layout.height = 66
  /\ packResult.image.width = 256
  /\ packResult.image.height = 128

\* Frames 0..3 of one animation, each 64x64, in index order.
FourFrameStrip ==
  << Frame("idle_0", "idle", 0, 64, 64, 8), Frame("idle_1", "idle", 1, 64, 64, 8),
     Frame("idle_2", "idle", 2, 64, 64, 8), Frame("idle_3", "idle", 3, 64, 64, 8) >>

FourFrameScenario ==
  /\ packPc # "collecting"
  /\ allFrames = FourFrameStrip
  /\ packOptions = [padding |-> 2, maxWidth |-> 2048, powerOfTwo |-> FALSE]

\* C4 as stated: four 64x64 frames packed with padding 2, maxWidth 2048 and
\* no rounding land at (2,2), (68,2), (134,2), (200,2) on a 202x66 sheet.
C4_Original ==
  FourFrameScenario =>
    /\ Done
    /\ \A i \in 1..4 :
         /\ Rect(FourFrameStrip[i].name).x = 2 + 66 * (i - 1)
         /\ Rect(FourFrameStrip[i].name).y = 2
    /\ packResult.layout.width = 202
    /\ packResult.layout.height = 66

\* C4 amended: the four frames land at (2,2), (68,2), (134,2), (200,2) and
\* the un-rounded sheet is 266x68 (4 * 64 + 5 * 2 by 64 + 2 * 2).
C4_FourFrameScenario ==
  FourFrameScenario =>
    /\ Done
    /\ \A i \in 1..4 :
         /\ Rect(FourFrameStrip[i].name).x = 2 + 66 * (i - 1)
         /\ Rect(FourFrameStrip[i].name).y = 2
    /\ packResult.layout.width = 266
    /\ packResult.layout.height = 68
    /\ packResult.image.width = 266
    /\ packResult.image.height = 68

C4_Witness == FourFrameScenario /\ Done /\ Rect("idle_3").x = 200

\* C5: packFrames on an empty list throws 'No frames to pack' and yields no
\* layout, image or result; a sheet that is produced is never zero-size.
C5_EmptyInputFails ==
  /\ (allFrames = <<>> /\ packPc # "collecting") =>
       /\ packPc = "failed"
       /\ packError = "No frames to pack"
       /\ packResult = NoResult
  /\ packPc = "failed" => allFrames = <<>>
  /\ Done => packResult.image.width > 0 /\ packResult.image.height > 0

C5_Witness ==
  allFrames = <<>> /\ packPc = "failed" /\ packError = "No frames to pack"

\* The frames of animation a in ascending frameIndex order, computed from the
\* SET of input frames: position k holds the frame with k-1 smaller indices.
CanonicalOrder(a) ==
  LET refs == { AnimationRef(f) : f \in { g \in InputFrames : g.animation = a } }
  IN [k \in 1..Cardinality(refs) |->
        CHOOSE r \in refs :
          Cardinality({ q \in refs : q.frame < r.frame }) = k - 1]

\* C7: the animation index lists, for each animation, the keys of its frames
\* in ascending frameIndex order; the order is a function of the set of
\* frames, so no permutation of the input (nor the height sort) changes it.
C7_AnimationOrder ==
  Done =>
    /\ DOMAIN packResult.animations = { f.animation : f \in InputFrames } \ {""}
    /\ \A a \in DOMAIN packResult.animations :
         /\ packResult.animations[a].frames = CanonicalOrder(a)
         /\ \A k \in 1..(Len(packResult.animations[a].frames) - 1) :
              packResult.animations[a].frames[k].frame
                < packResult.animations[a].frames[k + 1].frame

\* An animation whose frames were supplied out of index order, and whose
\* height-sorted order differs from the input order.
C7_Witness ==
  /\ Done
  /\ \E i \in 1..Len(allFrames) : \E j \in 1..Len(allFrames) :
       /\ i < j
       /\ allFrames[i].animation = allFrames[j].animation
       /\ allFrames[i].animation # ""
       /\ allFrames[i].frameIndex > allFrames[j].frameIndex
  /\ packResult.sortedFrames # allFrames

\* C8: the atlas has exactly one entry per input frame; the entry keyed by a
\* frame's name carries that frame's own size and the position the layout
\* gave to that frame, which is where its pixels are composited.
C8_FrameIdentity ==
  Done =>
    /\ AtlasNames = { FrameName(f) : f \in InputFrames }
    /\ Cardinality(AtlasNames) = Len(allFrames)
    /\ \A f \in InputFrames :
         LET e == packResult.atlas.frames[FrameName(f)]
         IN /\ e.frame.w = f.width /\ e.frame.h = f.height
            /\ e.sourceSize = [w |-> f.width, h |-> f.height]
            /\ \E i \in 1..Len(packResult.sortedFrames) :
                 /\ packResult.sortedFrames[i] = f
                 /\ e.frame.x = Positions[i].x
                 /\ e.frame.y = Positions[i].y
            /\ \E c \in { packResult.image.composites[i] :
                            i \in DOMAIN packResult.image.composites } :
                 c.input = f.buffer /\ c.left = e.frame.x /\ c.top = e.frame.y

\* A packed batch that the height sort reordered.
C8_Witness ==
  /\ Done
  /\ Len(allFrames) >= 3
  /\ packResult.sortedFrames # allFrames

\* C9: on non-empty input packFrames returns, and the layout holds exactly
\* one position per frame, aligned with the sorted order, which is a
\* rearrangement of the input; oversized frames included.
C9_Total ==
  (allFrames # <<>> /\ packPc # "collecting") =>
    /\ Done
    /\ Len(Positions) = Len(allFrames)
    /\ Len(packResult.sortedFrames) = Len(allFrames)
    /\ DOMAIN packResult.image.composites = 1..Len(allFrames)
    /\ \A f \in InputFrames :
         \E i \in 1..Len(Positions) : packResult.sortedFrames[i] = f

\* A packed batch of several frames, one of them wider than maxWidth.
C9_Witness ==
  /\ Done
  /\ Len(allFrames) >= 2
  /\ \E f \in InputFrames : f.width > packOptions.maxWidth
  /\ Len(Positions) = Len(allFrames)

\* C10: every placed frame has the padding on all four sides inside the
\* sheet, for the layout's size and for the final (rounded) size.
C10_PaddingAllSides ==
  Done =>
    \A i \in 1..Len(Positions) :
      LET f == packResult.sortedFrames[i]
          pos == Positions[i]
          pad == packOptions.padding
      IN /\ pos.x >= pad
         /\ pos.y >= pad
         /\ pos.x + f.width + pad <= packResult.layout.width
         /\ pos.y + f.height + pad <= packResult.layout.height
         /\ pos.x + f.width + pad <= packResult.image.width
         /\ pos.y + f.height + pad <= packResult.image.height

\* A multi-row sheet with positive padding, rounded to powers of two.
C10_Witness ==
  /\ Done
  /\ packOptions.padding > 0
  /\ packOptions.powerOfTwo
  /\ RowCount >= 2

(* ====================================================================== *)
(* PNG validator and background fixer (src/validator/png-validator.js)     *)
(* ====================================================================== *)

\* config.validation
cornerSampleSize == 5

alphaThreshold == 10

minTransparentBorderPercent == 95

Pixel(r, g, b, a) == [r |-> r, g |-> g, b |-> b, a |-> a]

White == Pixel(255, 255, 255, 255)

\* Colours an image is painted with: opaque white, near-white on and just
\* past the tolerance-30 boundary, fully transparent, white with alpha on the
\* threshold, black with alpha just above it, opaque black.
PixelPool ==
  { White, Pixel(225, 225, 225, 255), Pixel(224, 255, 255, 255),
    Pixel(0, 0, 0, 0), Pixel(255, 255, 255, 10), Pixel(0, 0, 0, 11),
    Pixel(0, 0, 0, 255) }

\* Width and height of the images under test.
ImageSizes == { <<3, 3>>, <<16, 16>>, <<64, 64>>, <<128, 32>>, <<16, 316>> }

\* Where the foreground colour is painted; the rest is background.
BlockKinds == { "none", "topLeft5", "topRow", "interior" }

\* An encoded image buffer.  fault = "header": metadata() rejects it;
\* fault = "pixels": metadata() succeeds and the raw pixel read rejects it.
\* A 3-channel image has no alpha (every pixel is opaque).
ImageBuffers ==
  { b \in [fault : {"none", "header", "pixels"}, format : {"png", "webp"},
           channels : {3, 4}, size : ImageSizes, bg : PixelPool,
           fg : PixelPool, block : BlockKinds, byteLength : {4096}] :
      /\ b.channels = 3 => b.bg.a = 255 /\ b.fg.a = 255
      /\ b.block = "none" => b.fg = b.bg
      /\ b.block # "none" => b.fg # b.bg
      /\ b.fault # "none" => b.block = "none" /\ b.bg = White
      /\ b.fault = "header" =>
            b.format = "png" /\ b.channels = 4 /\ b.size = <<64, 64>> }

InBlock(buf, x, y) ==
  CASE buf.block = "none" -> FALSE
    [] buf.block = "topLeft5" -> x < 5 /\ y < 5
    [] buf.block = "topRow" -> y = 0
    [] buf.block = "interior" ->
         /\ x >= 5 /\ x < buf.size[1] - 5
         /\ y >= 5 /\ y < buf.size[2] - 5

PixelAt(buf, x, y) == IF InBlock(buf, x, y) THEN buf.fg ELSE buf.bg

\* sharp(buffer).metadata()
Metadata(buf) ==
  [format |-> buf.format, channels |-> buf.channels, width |-> buf.size[1],
   height |-> buf.size[2], hasAlpha |-> buf.channels = 4]

\* Byte i of the raw 4-channel pixel data (row-major RGBA); a 3-channel image
\* read through ensureAlpha() gets alpha 255.
RawByte(buf, i) ==
  LET px == PixelAt(buf, (i \div 4) % buf.size[1], (i \div 4) \div buf.size[1])
      ch == i % 4
  IN CASE ch = 0 -> px.r
       [] ch = 1 -> px.g
       [] ch = 2 -> px.b
       [] ch = 3 -> IF buf.channels = 4 THEN px.a ELSE 255

\* Variant: the helper reads the blue byte instead of the alpha byte.
getAlpha_WrongChannel(buf, x, y) == RawByte(buf, (y * buf.size[1] + x) * 4 + 2)

\* getAlpha: data[(y * info.width + x) * 4 + 3]
getAlpha(buf, x, y) == RawByte(buf, (y * buf.size[1] + x) * 4 + 3)

Corners(width, height) ==
  << [name |-> "top-left", x |-> 0, y |-> 0],
     [name |-> "top-right", x |-> width - 1, y |-> 0],
     [name |-> "bottom-left", x |-> 0, y |-> height - 1],
     [name |-> "bottom-right", x |-> width - 1, y |-> height - 1] >>

\* Pixels visited by the two nested loops over dx, dy for one corner.
CornerBlock(corner, width, height) ==
  { <<corner.x + dx, corner.y + dy>> :
      dx \in { d \in 0..(cornerSampleSize - 1) : corner.x + d < width },
      dy \in { d \in 0..(cornerSampleSize - 1) : corner.y + d < height } }

\* Math.max(1, Math.floor(width / 20))
SampleInterval(width) == Max(1, width \div 20)

\* Values of a loop  for (v = 0; v < limit; v += sampleInterval).
EdgeSteps(limit, interval) == { v \in 0..(limit - 1) : v % interval = 0 }

\* The sample groups in the order the code visits them: four corners, top
\* edge, bottom edge, left edge, right edge.  A pixel counts once per group
\* it occurs in.
BorderSamples(width, height) ==
  LET c == Corners(width, height)
      iv == SampleInterval(width)
  IN << CornerBlock(c[1], width, height), CornerBlock(c[2], width, height),
        CornerBlock(c[3], width, height), CornerBlock(c[4], width, height),
        { <<x, 0>> : x \in EdgeSteps(width, iv) },
        { <<x, height - 1>> : x \in EdgeSteps(width, iv) },
        { <<0, y>> : y \in EdgeSteps(height, iv) },
        { <<width - 1, y>> : y \in EdgeSteps(height, iv) } >>

RECURSIVE SumCardinality(_)
SumCardinality(groups) ==
  IF groups = <<>> THEN 0
  ELSE Cardinality(Head(groups)) + SumCardinality(Tail(groups))

\* Variant: the comparison with the threshold is strict.
IsTransparentAlpha_Strict(alpha) == alpha < alphaThreshold

\* alpha <= alphaThreshold
IsTransparentAlpha(alpha) == alpha <= alphaThreshold

RECURSIVE CountTransparent(_, _)
CountTransparent(buf, groups) ==
  IF groups = <<>> THEN 0
  ELSE Cardinality({ p \in Head(groups) :
                       IsTransparentAlpha(getAlpha(buf, p[1], p[2])) })
       + CountTransparent(buf, Tail(groups))

\* transparentPercent.toFixed(1), in tenths of a percent (round half up).
PercentTenths(transparent, total) ==
  (2000 * transparent + total) \div (2 * total)

DetailLine(tenths) ==
  "Only " \o ToString(tenths \div 10) \o "." \o ToString(tenths % 10)
    \o "% of border pixels are transparent (need "
    \o ToString(minTransparentBorderPercent) \o "%)"

\* (transparentPixels / totalBorderPixels) * 100 >= minTransparentBorderPercent
PassesBorder(transparent, total) ==
  100 * transparent >= minTransparentBorderPercent * total

validateTransparency(buf) ==
  LET groups == BorderSamples(buf.size[1], buf.size[2])
      total == SumCardinality(groups)
      transparent == CountTransparent(buf, groups)
      ok == PassesBorder(transparent, total)
  IN [isTransparent |-> ok,
      percentTenths |-> PercentTenths(transparent, total),
      totalBorderPixels |-> total,
      transparentPixels |-> transparent,
      details |-> IF ok THEN <<>>
                  ELSE <<DetailLine(PercentTenths(transparent, total))>>]

FormatError(meta) ==
  "Invalid format: expected 'png', got '" \o meta.format \o "'"

ChannelsError(meta) ==
  "Invalid channels: expected 4 (RGBA), got " \o ToString(meta.channels)

AlphaError == "Missing alpha channel - image must have transparency support"

WidthError(meta, expected) ==
  "Invalid width: expected " \o ToString(expected.width) \o ", got "
    \o ToString(meta.width)

HeightError(meta, expected) ==
  "Invalid height: expected " \o ToString(expected.height) \o ", got "
    \o ToString(meta.height)

BackgroundError ==
  "Background is not transparent - corners/edges have non-zero alpha"

\* error.message of the decoder for a buffer it rejects
DecodeMessage(buf) ==
  IF buf.fault = "header" THEN "Input buffer contains unsupported image format"
  ELSE "Input buffer has corrupt pixel data"

ParseError(buf) == "Failed to parse image: " \o DecodeMessage(buf)

\* Variant: the checks stop at the first violation.
StructuralErrors_ShortCircuit(meta, expected) ==
  IF meta.format # "png" THEN <<FormatError(meta)>>
  ELSE IF meta.channels # 4 THEN <<ChannelsError(meta)>>
  ELSE IF ~meta.hasAlpha THEN <<AlphaError>>
  ELSE IF expected.width # 0 /\ meta.width # expected.width
    THEN <<WidthError(meta, expected)>>
  ELSE IF expected.height # 0 /\ meta.height # expected.height
    THEN <<HeightError(meta, expected)>>
  ELSE <<>>

\* Checks 1-4 of validatePng, in order; expected.width = 0 / height = 0 stand
\* for an absent (falsy) expectation.
StructuralErrors(meta, expected) ==
  (IF meta.format # "png" THEN <<FormatError(meta)>> ELSE <<>>)
  \o (IF meta.channels # 4 THEN <<ChannelsError(meta)>> ELSE <<>>)
  \o (IF ~meta.hasAlpha THEN <<AlphaError>> ELSE <<>>)
  \o (IF expected.width # 0 /\ meta.width # expected.width
      THEN <<WidthError(meta, expected)>> ELSE <<>>)
  \o (IF expected.height # 0 /\ meta.height # expected.height
      THEN <<HeightError(meta, expected)>> ELSE <<>>)

Undefined == "undefined"

Report(errors, metaOut, buf) ==
  [isValid |-> Len(errors) = 0, errors |-> errors, warnings |-> <<>>,
   metadata |-> [width |-> metaOut.width, height |-> metaOut.height,
                 channels |-> metaOut.channels, format |-> metaOut.format,
                 hasAlpha |-> metaOut.hasAlpha, size |-> buf.byteLength]]

NoMetadata ==
  [width |-> Undefined, height |-> Undefined, channels |-> Undefined,
   format |-> Undefined, hasAlpha |-> Undefined]

\* Variant: a decoder failure is not caught and leaves validatePng as a throw.
validatePng_Uncaught(buf, expected) ==
  IF buf.fault = "header" \/ (buf.fault = "pixels" /\ Metadata(buf).hasAlpha)
  THEN [status |-> "threw", error |-> DecodeMessage(buf)]
  ELSE [status |-> "returned",
        report |-> Report(StructuralErrors(Metadata(buf), expected),
                          Metadata(buf), buf),
        transparency |-> IF Metadata(buf).hasAlpha
                         THEN validateTransparency(buf) ELSE Idle]

\* validatePng, with the value validateTransparency returned when it ran.
validatePng(buf, expected) ==
  IF buf.fault = "header"
  THEN [status |-> "returned",
        report |-> Report(<<ParseError(buf)>>, NoMetadata, buf),
        transparency |-> Idle]
  ELSE
    LET meta == Metadata(buf)
        structural == StructuralErrors(meta, expected)
    IN IF ~meta.hasAlpha
       THEN [status |-> "returned",
             report |-> Report(structural, meta, buf),
             transparency |-> Idle]
       ELSE IF buf.fault = "pixels"
       THEN [status |-> "returned",
             report |-> Report(structural \o <<ParseError(buf)>>, meta, buf),
             transparency |-> Idle]
       ELSE
         LET tr == validateTransparency(buf)
         IN [status |-> "returned",
             report |-> Report(structural \o
                                 (IF tr.isTransparent THEN <<>>
                                  ELSE <<BackgroundError>> \o tr.details),
                               meta, buf),
             transparency |-> tr]

\* expectedSpec of validatePng; 0 stands for an absent width / height.
ExpectedSpecs == [width : {0, 64, 256}, height : {0, 64}]

\* Variant: one matching channel is enough for a pixel to count as background.
MatchesBackground_AnyChannel(r, g, b, backgroundColor, tolerance) ==
  \/ (IF r >= backgroundColor.r THEN r - backgroundColor.r
      ELSE backgroundColor.r - r) <= tolerance
  \/ (IF g >= backgroundColor.g THEN g - backgroundColor.g
      ELSE backgroundColor.g - g) <= tolerance
  \/ (IF b >= backgroundColor.b THEN b - backgroundColor.b
      ELSE backgroundColor.b - b) <= tolerance

\* Math.abs(r - bg.r) <= tolerance && ... (g) && ... (b)
MatchesBackground(r, g, b, backgroundColor, tolerance) ==
  /\ (IF r >= backgroundColor.r THEN r - backgroundColor.r
      ELSE backgroundColor.r - r) <= tolerance
  /\ (IF g >= backgroundColor.g THEN g - backgroundColor.g
      ELSE backgroundColor.g - g) <= tolerance
  /\ (IF b >= backgroundColor.b THEN b - backgroundColor.b
      ELSE backgroundColor.b - b) <= tolerance

\* The pixel that starts at byte i of the raw data after the loop body ran
\* on it: data[i + 3] = 0 when the pixel matches, nothing else is written.
ProcessedPixel(buf, i, options) ==
  LET r == RawByte(buf, i)
      g == RawByte(buf, i + 1)
      b == RawByte(buf, i + 2)
  IN Pixel(r, g, b,
           IF MatchesBackground(r, g, b, options.backgroundColor,
                                options.tolerance)
           THEN 0 ELSE RawByte(buf, i + 3))

\* Byte offset of some pixel painted with the background / foreground colour
\* (the image has no foreground pixel when none lies inside it).
BackgroundOffset(buf) ==
  LET w == buf.size[1]
      h == buf.size[2]
      at == CHOOSE p \in (0..(w - 1)) \X (0..(h - 1)) : ~InBlock(buf, p[1], p[2])
  IN (at[2] * w + at[1]) * 4

HasForeground(buf) ==
  \E p \in (0..(buf.size[1] - 1)) \X (0..(buf.size[2] - 1)) :
    InBlock(buf, p[1], p[2])

HasBackground(buf) ==
  \E p \in (0..(buf.size[1] - 1)) \X (0..(buf.size[2] - 1)) :
    ~InBlock(buf, p[1], p[2])

ForegroundOffset(buf) ==
  LET w == buf.size[1]
      h == buf.size[2]
      at == CHOOSE p \in (0..(w - 1)) \X (0..(h - 1)) : InBlock(buf, p[1], p[2])
  IN (at[2] * w + at[1]) * 4

\* removeBackground: every pixel of the raw RGBA data goes through the loop
\* body and the data is re-encoded as a 4-channel PNG of info.width x
\* info.height.  A buffer the decoder rejects makes the call throw.
removeBackground(buf, options) ==
  IF buf.fault # "none"
  THEN [status |-> "threw", error |-> DecodeMessage(buf)]
  ELSE [status |-> "returned",
        buffer |->
          [buf EXCEPT
             !.format = "png",
             !.channels = 4,
             !.bg = IF HasBackground(buf)
                    THEN ProcessedPixel(buf, BackgroundOffset(buf), options)
                    ELSE ProcessedPixel(buf, ForegroundOffset(buf), options),
             !.fg = IF HasForeground(buf)
                    THEN ProcessedPixel(buf, ForegroundOffset(buf), options)
                    ELSE ProcessedPixel(buf, BackgroundOffset(buf), options)]]

\* options of removeBackground: the default is white with tolerance 10, the
\* pipeline passes white with tolerance 30.
BackgroundOptions ==
  [backgroundColor : { [r |-> 255, g |-> 255, b |-> 255],
                       [r |-> 0, g |-> 0, b |-> 0] },
   tolerance : {10, 30}]

ImageInit ==
  /\ PackIdle
  /\ SliceIdle
  /\ RetryIdle
  /\ RunIdle
  /\ imgBuffer \in ImageBuffers
  /\ imgPc = "ready"
  /\ imgArgs = Idle
  /\ imgReport = Idle
  /\ imgFixed = Idle

\* One call validatePng(imgBuffer, expected).
ValidatePng(expected) ==
  /\ imgPc = "ready"
  /\ imgArgs' = expected
  /\ imgReport' = validatePng(imgBuffer, expected)
  /\ imgPc' = IF imgReport'.status = "threw" THEN "validateThrew" ELSE "validated"
  /\ UNCHANGED <<imgBuffer, imgFixed>>
  /\ UNCHANGED <<packVars, sliceVars, retryVars, runVars>>

\* One call removeBackground(imgBuffer, options).
RemoveBackground(options) ==
  /\ imgPc = "ready"
  /\ imgArgs' = options
  /\ imgFixed' = removeBackground(imgBuffer, options)
  /\ imgPc' = IF imgFixed'.status = "threw" THEN "fixThrew" ELSE "fixed"
  /\ UNCHANGED <<imgBuffer, imgReport>>
  /\ UNCHANGED <<packVars, sliceVars, retryVars, runVars>>

ImageNext ==
  \/ \E expected \in ExpectedSpecs : ValidatePng(expected)
  \/ \E options \in BackgroundOptions : RemoveBackground(options)

SpecImage == ImageInit /\ [][ImageNext]_vars

(* ---------------------------------------------------------------------- *)
(* Properties of the validator and fixer                                   *)
(* ---------------------------------------------------------------------- *)

Validated == imgPc = "validated"

ReportErrors == imgReport.report.errors

ErrorCount(e) ==
  Cardinality({ i \in DOMAIN ReportErrors : ReportErrors[i] = e })

\* 1 when the check is violated, 0 when it is not.
Once(violated) == IF violated THEN 1 ELSE 0

\* C11: each of the format, channel, alpha, width and height checks puts its
\* error into the report exactly when it is violated, whatever the other
\* checks find; isValid is true exactly when the error list is empty.
C11_IndependentChecks ==
  Validated =>
    /\ imgReport.report.isValid <=> ReportErrors = <<>>
    /\ imgBuffer.fault # "header" =>
         LET meta == Metadata(imgBuffer)
         IN /\ ErrorCount(FormatError(meta)) = Once(meta.format # "png")
            /\ ErrorCount(ChannelsError(meta)) = Once(meta.channels # 4)
            /\ ErrorCount(AlphaError) = Once(~meta.hasAlpha)
            /\ ErrorCount(WidthError(meta, imgArgs))
                 = Once(imgArgs.width # 0 /\ meta.width # imgArgs.width)
            /\ ErrorCount(HeightError(meta, imgArgs))
                 = Once(imgArgs.height # 0 /\ meta.height # imgArgs.height)

\* A report in which all five structural checks failed together.
C11_Witness ==
  /\ Validated
  /\ imgBuffer.fault = "none"
  /\ Len(ReportErrors) = 5
  /\ ~imgReport.report.isValid

\* The samples the border check is described to take: a full
\* cornerSampleSize x cornerSampleSize block inside the image at each corner,
\* and every interval-th pixel of each edge.
DescribedCornerBlock(x0, y0, width, height) ==
  { <<x, y>> \in (0..(width - 1)) \X (0..(height - 1)) :
      /\ x >= x0 /\ x < x0 + cornerSampleSize
      /\ y >= y0 /\ y < y0 + cornerSampleSize }

DescribedSamples(width, height) ==
  LET iv == Max(1, width \div 20)
      xs == { x \in 0..(width - 1) : x % iv = 0 }
      ys == { y \in 0..(height - 1) : y % iv = 0 }
  IN << DescribedCornerBlock(0, 0, width, height),
        DescribedCornerBlock(width - cornerSampleSize, 0, width, height),
        DescribedCornerBlock(0, height - cornerSampleSize, width, height),
        DescribedCornerBlock(width - cornerSampleSize,
                             height - cornerSampleSize, width, height),
        { <<x, 0>> : x \in xs }, { <<x, height - 1>> : x \in xs },
        { <<0, y>> : y \in ys }, { <<width - 1, y>> : y \in ys } >>

\* C12 as stated: the border check samples a cornerSampleSize x
\* cornerSampleSize block at each of the four corners plus every interval-th
\* pixel of each edge; the sampled pixels and the sample count are those.
C12_Original ==
  (Validated /\ imgReport.transparency # Idle) =>
    LET w == imgBuffer.size[1]
        h == imgBuffer.size[2]
    IN /\ UNION { BorderSamples(w, h)[k] : k \in 1..8 }
            = UNION { DescribedSamples(w, h)[k] : k \in 1..8 }
       /\ imgReport.transparency.totalBorderPixels
            = SumCardinality(DescribedSamples(w, h))

RECURSIVE CountAtMostThreshold(_, _)
CountAtMostThreshold(buf, groups) ==
  IF groups = <<>> THEN 0
  ELSE Cardinality({ p \in Head(groups) :
                       PixelAt(buf, p[1], p[2]).a <= alphaThreshold })
       + CountAtMostThreshold(buf, Tail(groups))

OpaqueTopLeftCase ==
  /\ Validated
  /\ imgBuffer.fault = "none"
  /\ imgBuffer.format = "png"
  /\ imgBuffer.channels = 4
  /\ imgBuffer.size[1] >= 5 /\ imgBuffer.size[2] >= 5
  /\ imgArgs.width \in {0, imgBuffer.size[1]}
  /\ imgArgs.height \in {0, imgBuffer.size[2]}
  /\ imgBuffer.block = "topLeft5"
  /\ imgBuffer.fg.a = 255
  /\ imgBuffer.bg.a = 0

\* The same image without the block: every border pixel fully transparent.
TransparentBorderCase ==
  /\ Validated
  /\ imgBuffer.fault = "none"
  /\ imgBuffer.format = "png"
  /\ imgBuffer.channels = 4
  /\ imgArgs.width \in {0, imgBuffer.size[1]}
  /\ imgArgs.height \in {0, imgBuffer.size[2]}
  /\ imgBuffer.block \in {"none", "interior"}
  /\ imgBuffer.bg.a = 0

FailsBelow95 ==
  /\ ~imgReport.report.isValid
  /\ \E tenths \in 0..949 :
       \E i \in DOMAIN ReportErrors : ReportErrors[i] = DetailLine(tenths)

\* C14 as stated: every such image with the opaque top-left block fails with
\* a detail line citing a percentage below 95; with a transparent border it
\* passes.
C14_Original ==
  /\ OpaqueTopLeftCase => FailsBelow95
  /\ TransparentBorderCase => imgReport.report.isValid

\* C14 amended: the image with the opaque top-left block fails, citing a
\* percentage below 95, when its height is at most 256 (the largest frame
\* height); with a transparent border it passes.
C14_OpaqueCornerFails ==
  /\ (OpaqueTopLeftCase /\ imgBuffer.size[2] <= 256) => FailsBelow95
  /\ TransparentBorderCase => imgReport.report.isValid

C14_Witness ==
  /\ OpaqueTopLeftCase
  /\ imgBuffer.size = <<64, 64>>
  /\ FailsBelow95

\* C15: validatePng returns a report for every buffer; a buffer the decoder
\* rejects yields isValid = false with the failure as the last error, after
\* the errors collected before it.
C15_NeverThrows ==
  imgPc \in {"validated", "validateThrew"} =>
    /\ imgReport.status = "returned"
    /\ imgBuffer.fault = "header" =>
         /\ ReportErrors = <<ParseError(imgBuffer)>>
         /\ ~imgReport.report.isValid
    /\ (imgBuffer.fault = "pixels" /\ Metadata(imgBuffer).hasAlpha) =>
         /\ ReportErrors
              = StructuralErrors(Metadata(imgBuffer), imgArgs)
                  \o <<ParseError(imgBuffer)>>
         /\ ~imgReport.report.isValid

\* A pixel read failed after structural errors had been collected.
C15_Witness ==
  /\ Validated
  /\ imgBuffer.fault = "pixels"
  /\ Len(ReportErrors) >= 3
  /\ ReportErrors[Len(ReportErrors)] = ParseError(imgBuffer)

\* The pixel at (x, y) as the raw RGBA reader delivers it.
DecodedPixel(buf, x, y) ==
  LET px == PixelAt(buf, x, y)
  IN IF buf.channels = 4 THEN px ELSE Pixel(px.r, px.g, px.b, 255)

Distance(a, b) == IF a >= b THEN a - b ELSE b - a

\* C19: removeBackground zeroes the alpha of exactly the pixels whose r, g
\* and b are each within tolerance of the target; R, G, B never change, the
\* alpha of the other pixels stays, and width and height are preserved.
C19_RemoveBackground ==
  imgPc = "fixed" =>
    LET out == imgFixed.buffer
        target == imgArgs.backgroundColor
    IN /\ out.size = imgBuffer.size
       /\ \A x \in 0..(imgBuffer.size[1] - 1) :
            \A y \in 0..(imgBuffer.size[2] - 1) :
              LET old == DecodedPixel(imgBuffer, x, y)
                  new == PixelAt(out, x, y)
                  match == /\ Distance(old.r, target.r) <= imgArgs.tolerance
                           /\ Distance(old.g, target.g) <= imgArgs.tolerance
                           /\ Distance(old.b, target.b) <= imgArgs.tolerance
              IN /\ new.r = old.r /\ new.g = old.g /\ new.b = old.b
                 /\ new.a = IF match THEN 0 ELSE old.a

\* A fix that cleared a colour exactly on the tolerance boundary and left a
\* colour with one channel just outside it untouched.
C19_Witness ==
  /\ imgPc = "fixed"
  /\ imgArgs.tolerance = 30
  /\ imgArgs.backgroundColor = [r |-> 255, g |-> 255, b |-> 255]
  /\ imgBuffer.bg = Pixel(225, 225, 225, 255)
  /\ imgBuffer.fg = Pixel(224, 255, 255, 255)
  /\ imgBuffer.block = "interior"
  /\ imgBuffer.size = <<16, 16>>
  /\ imgFixed.buffer.bg.a = 0
  /\ imgFixed.buffer.fg.a = 255

(* ====================================================================== *)
(* Strip and grid slicer (src/processor/slicer.js)                         *)
(* ====================================================================== *)

\* Largest frameCount passed to sliceStrip.
MaxFrameCount == 4

\* Largest number of columns / rows passed to sliceGrid.
MaxGridSide == 3

\* Actual width and height of the image handed to the slicer.
StripWidths == {16, 48, 60, 64, 128, 256, 300}

StripHeights == {8, 16, 64, 100}

FrameSides == {16, 64}

Min(a, b) == IF a < b THEN a ELSE b

\* sharp(buffer).extract({left, top, width, height}): the buffer of a frame is
\* identified by the region of the source it holds.
Extract(left, top, width, height) ==
  [left |-> left, top |-> top, width |-> width, height |-> height]

ExtractedFrame(buffer, index, x, y, width, height) ==
  [buffer |-> buffer, index |-> index, x |-> x, y |-> y,
   width |-> width, height |-> height]

\* The for-loop of sliceStrip from iteration i on; frames holds what was
\* pushed so far.
RECURSIVE StripLoop(_, _, _, _, _, _)
StripLoop(i, frames, meta, frameWidth, frameHeight, frameCount) ==
  IF ~(i < frameCount) THEN frames
  ELSE
    LET x == i * frameWidth
    IN IF x + frameWidth > meta.width THEN frames
       ELSE StripLoop(i + 1,
              Append(frames,
                ExtractedFrame(
                  Extract(x, 0, Min(frameWidth, meta.width - x),
                          Min(frameHeight, meta.height)),
                  i, x, 0, frameWidth, frameHeight)),
              meta, frameWidth, frameHeight, frameCount)

sliceStrip(meta, frameWidth, frameHeight, frameCount) ==
  StripLoop(0, <<>>, meta, frameWidth, frameHeight, frameCount)

\* The nested loops of sliceGrid from cell n = row * columns + col on.
RECURSIVE GridLoop(_, _, _, _, _, _, _)
GridLoop(n, frames, meta, frameWidth, frameHeight, columns, rows) ==
  IF ~(n < rows * columns) THEN frames
  ELSE
    LET col == n % columns
        row == n \div columns
        x == col * frameWidth
        y == row * frameHeight
    IN IF x + frameWidth > meta.width \/ y + frameHeight > meta.height
       THEN GridLoop(n + 1, frames, meta, frameWidth, frameHeight, columns, rows)
       ELSE GridLoop(n + 1,
              Append(frames,
                ExtractedFrame(Extract(x, y, frameWidth, frameHeight),
                               Len(frames), x, y, frameWidth, frameHeight)),
              meta, frameWidth, frameHeight, columns, rows)

\* Variant: the first out-of-bounds cell ends the whole extraction.
RECURSIVE GridLoopStop(_, _, _, _, _, _, _)
GridLoopStop(n, frames, meta, frameWidth, frameHeight, columns, rows) ==
  IF ~(n < rows * columns) THEN frames
  ELSE
    LET col == n % columns
        row == n \div columns
        x == col * frameWidth
        y == row * frameHeight
    IN IF x + frameWidth > meta.width \/ y + frameHeight > meta.height
       THEN frames
       ELSE GridLoopStop(n + 1,
              Append(frames,
                ExtractedFrame(Extract(x, y, frameWidth, frameHeight),
                               Len(frames), x, y, frameWidth, frameHeight)),
              meta, frameWidth, frameHeight, columns, rows)

sliceGrid_StopAtFirst(meta, frameWidth, frameHeight, columns, rows) ==
  GridLoopStop(0, <<>>, meta, frameWidth, frameHeight, columns, rows)

sliceGrid(meta, frameWidth, frameHeight, columns, rows) ==
  GridLoop(0, <<>>, meta, frameWidth, frameHeight, columns, rows)

StripArgs ==
  [op : {"strip"}, meta : [width : StripWidths, height : StripHeights],
   frameWidth : FrameSides, frameHeight : FrameSides,
   frameCount : 1..MaxFrameCount]

GridArgs ==
  [op : {"grid"}, meta : [width : StripWidths, height : StripHeights],
   frameWidth : FrameSides, frameHeight : FrameSides,
   columns : 1..MaxGridSide, rows : 1..MaxGridSide]

SliceInit ==
  /\ PackIdle
  /\ ImgIdle
  /\ RetryIdle
  /\ RunIdle
  /\ sliceArgs = Idle
  /\ slicePc = "ready"
  /\ sliceFrames = <<>>

\* One call sliceStrip(stripBuffer, frameWidth, frameHeight, frameCount).
SliceStrip(args) ==
  /\ slicePc = "ready"
  /\ sliceArgs' = args
  /\ sliceFrames' = sliceStrip(args.meta, args.frameWidth, args.frameHeight,
                               args.frameCount)
  /\ slicePc' = "sliced"
  /\ UNCHANGED <<packVars, imgVars, retryVars, runVars>>

\* One call sliceGrid(sheetBuffer, frameWidth, frameHeight, columns, rows).
SliceGrid(args) ==
  /\ slicePc = "ready"
  /\ sliceArgs' = args
  /\ sliceFrames' = sliceGrid(args.meta, args.frameWidth, args.frameHeight,
                              args.columns, args.rows)
  /\ slicePc' = "gridded"
  /\ UNCHANGED <<packVars, imgVars, retryVars, runVars>>

SliceNext ==
  \/ \E args \in StripArgs : SliceStrip(args)
  \/ \E args \in GridArgs : SliceGrid(args)

SpecSlice == SliceInit /\ [][SliceNext]_vars

(* ---------------------------------------------------------------------- *)
(* Properties of the slicer                                                *)
(* ---------------------------------------------------------------------- *)

StripSliced == slicePc = "sliced"

\* The rectangle of frame i lies within the strip's actual bounds.
StripRectInBounds(i) ==
  /\ (i + 1) * sliceArgs.frameWidth <= sliceArgs.meta.width
  /\ sliceArgs.frameHeight <= sliceArgs.meta.height

\* The first index whose rectangle exceeds the bounds, or frameCount.
FirstStripOverflow ==
  CHOOSE k \in 0..sliceArgs.frameCount :
    /\ \A i \in 0..(k - 1) : StripRectInBounds(i)
    /\ k < sliceArgs.frameCount => ~StripRectInBounds(k)

\* C16 as stated: sliceStrip returns frames 0..k-1 in order, frame i cut at
\* x = i * frameWidth, y = 0, where k is the first index whose rectangle
\* exceeds the strip's actual bounds (or frameCount).
C16_Original ==
  StripSliced =>
    /\ Len(sliceFrames) = FirstStripOverflow
    /\ \A n \in 1..Len(sliceFrames) :
         /\ sliceFrames[n].index = n - 1
         /\ sliceFrames[n].x = (n - 1) * sliceArgs.frameWidth
         /\ sliceFrames[n].y = 0
         /\ sliceFrames[n].buffer.left = sliceFrames[n].x
         /\ sliceFrames[n].buffer.top = 0

\* C17 as stated: every returned frame is exactly frameWidth x frameHeight,
\* its rectangle lies inside the strip, and its recorded width and height are
\* those of the region extracted.
C17_Original ==
  StripSliced =>
    \A n \in 1..Len(sliceFrames) :
      LET f == sliceFrames[n]
      IN /\ f.width = sliceArgs.frameWidth
         /\ f.height = sliceArgs.frameHeight
         /\ f.x + f.width <= sliceArgs.meta.width
         /\ f.y + f.height <= sliceArgs.meta.height
         /\ f.buffer.width = f.width
         /\ f.buffer.height = f.height

GridCells ==
  (0..(sliceArgs.columns - 1)) \X (0..(sliceArgs.rows - 1))

CellInBounds(c) ==
  /\ (c[1] + 1) * sliceArgs.frameWidth <= sliceArgs.meta.width
  /\ (c[2] + 1) * sliceArgs.frameHeight <= sliceArgs.meta.height

\* c comes before d in row-major order.
CellBefore(c, d) == c[2] < d[2] \/ (c[2] = d[2] /\ c[1] < d[1])

MaxRetryCeiling == 3

\* config.generation.retryDelayMs: the default and an override.
RetryDelays == {500, 2000}

\* error.message of a failed generateImage call.
FailureMessages == {"rate limit", "timeout", "content policy"}

RetryConfigs == [retries : 0..MaxRetryCeiling, delayMs : RetryDelays]

Event(kind, n, ms, message) ==
  [kind |-> kind, n |-> n, ms |-> ms, message |-> message]

\* Variant: the wait is also taken after the last allowed attempt.
ShouldWait_Always(attempt, retries) == attempt <= retries

\* attempt < retries
ShouldWait(attempt, retries) == attempt < retries

\* delayMs * attempt
WaitTime(delayMs, attempt) == delayMs * attempt

\* `Image generation failed after ${retries} attempts: ${lastError?.message}`
ExhaustedMessage(retries, lastError) ==
  "Image generation failed after " \o ToString(retries) \o " attempts: "
    \o (IF lastError = "" THEN "undefined" ELSE lastError)

RetryInit ==
  /\ PackIdle
  /\ ImgIdle
  /\ SliceIdle
  /\ RunIdle
  /\ retryCfg \in RetryConfigs
  /\ retryPc = "ready"
  /\ retryAttempt = 0
  /\ retryLog = <<>>
  /\ retryLastError = ""
  /\ retryOutcome = Idle

\* The loop header for (...; attempt <= retries; ...) reached with the given
\* attempt number: either generateImage is called or the loop is left and
\* the final error is thrown.
EnterLoop(attempt, log, lastError) ==
  /\ retryAttempt' = attempt
  /\ retryLastError' = lastError
  /\ IF attempt <= retryCfg.retries
     THEN /\ retryPc' = "attempting"
          /\ retryLog' = Append(log, Event("attempt", attempt, 0, ""))
          /\ retryOutcome' = retryOutcome
     ELSE /\ retryPc' = "threw"
          /\ retryLog' = log
          /\ retryOutcome' =
               [status |-> "threw",
                error |-> ExhaustedMessage(retryCfg.retries, lastError)]

\* The call of generateImageWithRetry up to its first await.
RetryStart ==
  /\ retryPc = "ready"
  /\ EnterLoop(1, retryLog, retryLastError)
  /\ UNCHANGED retryCfg
  /\ UNCHANGED <<packVars, imgVars, sliceVars, runVars>>

\* generateImage resolves: its buffer is returned at once.
AttemptSucceeds ==
  /\ retryPc = "attempting"
  /\ retryPc' = "returned"
  /\ retryLog' = Append(retryLog, Event("succeeded", retryAttempt, 0, ""))
  /\ retryOutcome' = [status |-> "returned", buffer |-> [attempt |-> retryAttempt]]
  /\ UNCHANGED <<retryCfg, retryAttempt, retryLastError>>
  /\ UNCHANGED <<packVars, imgVars, sliceVars, runVars>>

\* generateImage rejects: the error is kept, then either the wait starts or
\* the loop goes on to its next iteration.
AttemptFails(message) ==
  /\ retryPc = "attempting"
  /\ LET log == Append(retryLog, Event("failed", retryAttempt, 0, message))
     IN IF ShouldWait(retryAttempt, retryCfg.retries)
        THEN /\ retryPc' = "sleeping"
             /\ retryLog' =
                  Append(log, Event("sleep", retryAttempt,
                                    WaitTime(retryCfg.delayMs, retryAttempt), ""))
             /\ retryLastError' = message
             /\ UNCHANGED <<retryAttempt, retryOutcome>>
        ELSE EnterLoop(retryAttempt + 1, log, message)
  /\ UNCHANGED retryCfg
  /\ UNCHANGED <<packVars, imgVars, sliceVars, runVars>>

\* The sleep timer fires and the loop goes on to its next iteration.
SleepDone ==
  /\ retryPc = "sleeping"
  /\ EnterLoop(retryAttempt + 1, retryLog, retryLastError)
  /\ UNCHANGED retryCfg
  /\ UNCHANGED <<packVars, imgVars, sliceVars, runVars>>

RetryNext ==
  \/ RetryStart
  \/ AttemptSucceeds
  \/ \E message \in FailureMessages : AttemptFails(message)
  \/ SleepDone

\* Every pending await settles: generateImage resolves or rejects and the
\* sleep timer fires.
SpecRetry == RetryInit /\ [][RetryNext]_vars /\ WF_vars(RetryNext)

(* ---------------------------------------------------------------------- *)
(* Properties of generateImageWithRetry                                    *)
(* ---------------------------------------------------------------------- *)

RetryTerminated == retryPc \in {"returned", "threw"}

AttemptEvents == { i \in DOMAIN retryLog : retryLog[i].kind = "attempt" }

RetrySafety ==
  /\ Cardinality(AttemptEvents) <= retryCfg.retries
  /\ \A i \in DOMAIN retryLog :
       LET e == retryLog[i]
       IN /\ e.kind = "attempt" =>
               /\ e.n = Cardinality({ j \in AttemptEvents : j <= i })
               /\ e.n > 1 =>
                    /\ retryLog[i - 1].kind = "sleep"
                    /\ retryLog[i - 1].n = e.n - 1
                    /\ retryLog[i - 1].ms = retryCfg.delayMs * (e.n - 1)
          /\ e.kind = "sleep" =>
               /\ retryLog[i - 1].kind = "failed"
               /\ retryLog[i - 1].n = e.n
               /\ e.ms = retryCfg.delayMs * e.n
               /\ e.n < retryCfg.retries
          /\ e.kind = "failed" =>
               /\ retryLog[i - 1] = Event("attempt", e.n, 0, "")
               /\ (e.n < retryCfg.retries) =>
                    /\ i < Len(retryLog)
                    /\ retryLog[i + 1].kind = "sleep"
               /\ (e.n >= retryCfg.retries) =>
                    /\ i = Len(retryLog)
                    /\ retryPc = "threw"
          /\ e.kind = "succeeded" =>
               /\ i = Len(retryLog)
               /\ retryLog[i - 1] = Event("attempt", e.n, 0, "")
               /\ retryPc = "returned"
               /\ retryOutcome = [status |-> "returned",
                                  buffer |-> [attempt |-> e.n]]
  /\ retryPc = "returned" =>
       retryLog[Len(retryLog)].kind = "succeeded"
  /\ retryPc = "threw" =>
       /\ retryOutcome.status = "threw"
       /\ \/ retryCfg.retries = 0 /\ retryLog = <<>>
          \/ /\ retryLog # <<>>
             /\ retryLog[Len(retryLog)].kind = "failed"
             /\ retryLog[Len(retryLog)].n = retryCfg.retries

FailedEvents == { i \in DOMAIN retryLog : retryLog[i].kind = "failed" }

\* The message of the failure of the final allowed attempt.
FinalFailureCarried ==
  /\ retryLog # <<>>
  /\ LET last == retryLog[Len(retryLog)]
     IN /\ last.kind = "failed"
        /\ last.n = retryCfg.retries
        /\ retryOutcome.error =
             "Image generation failed after " \o ToString(retryCfg.retries)
               \o " attempts: " \o last.message

\* C21: when every allowed attempt fails, the thrown error carries the
\* message of the failure of the final attempt, for every retry ceiling.
C21_Original == retryPc = "threw" => FinalFailureCarried

\* The same for the ceilings that allow at least one attempt.
FinalFailureCarriedFromOneAttempt ==
  (retryPc = "threw" /\ retryCfg.retries >= 1) => FinalFailureCarried

(* ====================================================================== *)
(* The generate command (src/cli.js, src/index.js)                         *)
(* ====================================================================== *)

\* An animation entry of a specification file; frames = 0 / fps = 0 stand for
\* an absent (falsy) value.
Animation(name, frames, fps) == [name |-> name, frames |-> frames, fps |-> fps]

\* A parsed specification file.  animations lists the entries in the order of
\* Object.keys; name = "" and description = "" stand for absent properties.
SpriteSpec(name, description, frameWidth, frameHeight, animations) ==
  [name |-> name, description |-> description, frameWidth |-> frameWidth,
   frameHeight |-> frameHeight, animations |-> animations]

\* Specification files under test: two animations whose strips are 128x32,
\* three animations with names that extend one another, a single 64x64
\* frame, a frame width below the minimum, and a file without animations.
SpecFiles ==
  { SpriteSpec("hero", "a knight", 64, 32,
               <<Animation("idle", 2, 8), Animation("walk", 2, 12)>>),
    SpriteSpec("", "a slime", 16, 16,
               <<Animation("run", 2, 10), Animation("run_1", 1, 10),
                 Animation("run_1_0", 1, 60)>>),
    SpriteSpec("coin", "a coin", 64, 64, <<Animation("spin", 1, 8)>>),
    SpriteSpec("tiny", "a bug", 8, 16, <<Animation("idle", 2, 8)>>),
    SpriteSpec("blank", "", 64, 64, <<>>) }

\* errors.join(', ')
RECURSIVE JoinErrors(_)
JoinErrors(errors) ==
  IF Len(errors) = 0 THEN ""
  ELSE IF Len(errors) = 1 THEN errors[1]
  ELSE errors[1] \o ", " \o JoinErrors(Tail(errors))

\* validateConfig: the API key is the only required setting.
validateConfig(apiKey) ==
  LET errors == IF ~apiKey
                THEN <<"OPENAI_API_KEY environment variable is required">>
                ELSE <<>>
  IN [isValid |-> Len(errors) = 0, errors |-> errors]

\* The two checks validateSpec makes on one animation entry.
AnimationErrors(anim) ==
  (IF anim.frames = 0 \/ anim.frames < 1 \/ anim.frames > 16
   THEN <<"Animation '" \o anim.name \o "': frames must be between 1 and 16">>
   ELSE <<>>)
  \o (IF anim.fps = 0 \/ anim.fps < 1 \/ anim.fps > 60
      THEN <<"Animation '" \o anim.name \o "': fps must be between 1 and 60">>
      ELSE <<>>)

RECURSIVE AllAnimationErrors(_)
AllAnimationErrors(animations) ==
  IF Len(animations) = 0 THEN <<>>
  ELSE AnimationErrors(Head(animations))
         \o AllAnimationErrors(Tail(animations))

validateSpec(spec) ==
  LET errors ==
        (IF spec.description = ""
         THEN <<"character.description is required">> ELSE <<>>)
        \o (IF spec.frameWidth = 0 \/ spec.frameWidth < 16
               \/ spec.frameWidth > 256
            THEN <<"frameWidth must be between 16 and 256">> ELSE <<>>)
        \o (IF spec.frameHeight = 0 \/ spec.frameHeight < 16
               \/ spec.frameHeight > 256
            THEN <<"frameHeight must be between 16 and 256">> ELSE <<>>)
        \o (IF Len(spec.animations) = 0
            THEN <<"At least one animation is required">> ELSE <<>>)
        \o AllAnimationErrors(spec.animations)
  IN [isValid |-> Len(errors) = 0, errors |-> errors]

\* spec.name || 'character'
CharacterName(spec) == IF spec.name = "" THEN "character" ELSE spec.name

\* An encoded image as the generator returns it.
Image(fault, format, channels, size, bg, fg, block) ==
  [fault |-> fault, format |-> format, channels |-> channels, size |-> size,
   bg |-> bg, fg |-> fg, block |-> block, byteLength |-> 4096]

Transparent == Pixel(0, 0, 0, 0)

Black == Pixel(0, 0, 0, 255)

\* Images the generator returns: transparent, opaque white, near-white and
\* opaque black backgrounds, plain or with a centred figure, with or without
\* an alpha channel, PNG or WebP, of the strip's size or not, and buffers
\* the decoder rejects.
GeneratedImages ==
  { Image("none", "png", 4, <<128, 32>>, Transparent, Black, "interior"),
    Image("none", "png", 4, <<128, 32>>, White, Black, "interior"),
    Image("none", "png", 4, <<128, 32>>, Black, Black, "none"),
    Image("none", "png", 3, <<128, 32>>, White, White, "none"),
    Image("none", "webp", 4, <<128, 32>>, Transparent, Transparent, "none"),
    Image("none", "webp", 4, <<128, 32>>, White, White, "none"),
    Image("none", "png", 4, <<16, 16>>, Transparent, Pixel(0, 0, 0, 11),
          "interior"),
    Image("none", "png", 4, <<16, 16>>, Pixel(225, 225, 225, 255), Black,
          "interior"),
    Image("none", "png", 4, <<64, 64>>, Transparent, Black, "interior"),
    Image("none", "png", 4, <<64, 64>>, White, Black, "interior"),
    Image("none", "png", 4, <<3, 3>>, Transparent, Transparent, "none"),
    Image("header", "png", 4, <<64, 64>>, White, White, "none"),
    Image("pixels", "png", 4, <<128, 32>>, White, White, "none"),
    Image("pixels", "png", 4, <<16, 16>>, White, White, "none") }

\* The message generateImageWithRetry throws once its attempts are used up
\* (the default ceiling of config.generation.maxRetries).
GeneratorFailures == { ExhaustedMessage(3, m) : m \in FailureMessages }

\* Variant: the returned image is used at the size it came in.
NeedsResize_Never(meta, stripWidth, stripHeight) == FALSE

\* metadata.width !== stripWidth || metadata.height !== stripHeight
NeedsResize(meta, stripWidth, stripHeight) ==
  meta.width # stripWidth \/ meta.height # stripHeight

\* sharp(buffer).resize(w, h, {kernel: nearest, fit: 'fill'}).png(): a PNG of
\* exactly w x h with the channels of the source; the nearest-neighbour
\* kernel copies source pixels, so the result holds no colour the source does
\* not hold.  Which source pixel lands where is left open.
Resize(buf, w, h) ==
  IF buf.fault # "none"
  THEN [status |-> "threw", error |-> DecodeMessage(buf), buffers |-> {}]
  ELSE [status |-> "returned", error |-> "",
        buffers |->
          { [fault |-> "none", format |-> "png", channels |-> buf.channels,
             size |-> <<w, h>>, bg |-> p, fg |-> q, block |-> k,
             byteLength |-> buf.byteLength] :
              <<p, q, k>> \in
                { t \in {buf.bg, buf.fg} \X {buf.bg, buf.fg} \X BlockKinds :
                    (t[3] = "none") <=> (t[1] = t[2]) } }]

\* validateSpriteStrip: validatePng against the strip's expected size.
validateSpriteStrip(buf, frameWidth, frameHeight, frameCount) ==
  validatePng(buf, [width |-> frameWidth * frameCount,
                    height |-> frameHeight]).report

\* Variant: the test is for 'transparen', which the missing-alpha message
\* holds as well.
IncludesTransparent_Prefix(e) ==
  \/ e = BackgroundError
  \/ e = AlphaError
  \/ \E tenths \in 0..1000 : e = DetailLine(tenths)

\* e.includes('transparent'), decided per message template: of the messages
\* validatePng produces, the background summary and its detail line hold the
\* word; 'transparency' in the missing-alpha message does not.
IncludesTransparent(e) ==
  \/ e = BackgroundError
  \/ \E tenths \in 0..1000 : e = DetailLine(tenths)

\* validation.errors.some(e => e.includes('transparent'))
SomeIncludesTransparent(errors) ==
  \E i \in 1..Len(errors) : IncludesTransparent(errors[i])

\* The options generateAnimation passes to removeBackground.
FixOptions ==
  [backgroundColor |-> [r |-> 255, g |-> 255, b |-> 255], tolerance |-> 30]

\* An entry of the run's history: a call the run made, the animation it was
\* made for ("" for the batch) and, for a validation, the report's errors.
RunEvent(kind, animation, errors) ==
  [kind |-> kind, animation |-> animation, errors |-> errors]

\* Variant: the frame name leaves the animation out.
FrameDataName_IndexOnly(animName, index) == "frame_" \o ToString(index)

\* `${animName}_${index}`
FrameDataName(animName, index) == animName \o "_" \o ToString(index)

\* extractedFrames.map((frame, index) => ({...})): index is the position in
\* the extracted array.
FrameData(extractedFrames, spec, anim) ==
  [i \in 1..Len(extractedFrames) |->
     [name |-> FrameDataName(anim.name, i - 1),
      buffer |-> extractedFrames[i].buffer,
      width |-> spec.frameWidth,
      height |-> spec.frameHeight,
      animation |-> anim.name,
      frameIndex |-> i - 1,
      fps |-> anim.fps]]

StripFile(anim) == "strip_" \o anim.name \o ".png"

\* !validation.isValid && validation.errors.some(e => e.includes('transparent'))
NeedsFix(validation) ==
  ~validation.isValid /\ SomeIncludesTransparent(validation.errors)

\* imageBuffer after the repair step: the result of removeBackground when the
\* repair is due, the strip itself otherwise.
FixResult(strip, fix) ==
  IF fix THEN removeBackground(strip, FixOptions)
  ELSE [status |-> "returned", buffer |-> strip]

\* The calls of generateAnimation from the validation to the slicing.
StripEvents(anim, errors, fix) ==
  <<RunEvent("validate", anim.name, errors)>>
    \o (IF fix THEN <<RunEvent("removeBackground", anim.name, <<>>)>>
        ELSE <<>>)
    \o <<RunEvent("writeStrip", anim.name, <<>>), RunEvent("slice", anim.name, <<>>)>>

\* The strip was saved; sliceStrip extracted extractedFrames from it, or
\* threw on the first extraction when the decoder rejects the pixel data.
SaveAndSlice(spec, anim, events, imageBuffer, extractedFrames) ==
  IF imageBuffer.fault # "none" /\ Len(extractedFrames) > 0
  THEN [status |-> "threw", error |-> DecodeMessage(imageBuffer),
        events |-> events, files |-> {StripFile(anim)}, frames |-> <<>>]
  ELSE [status |-> "returned", error |-> "", events |-> events,
        files |-> {StripFile(anim)},
        frames |-> FrameData(extractedFrames, spec, anim)]

\* generateAnimation after the validation returned its report and the
\* repair step ran: a throw of removeBackground ends it, otherwise the strip
\* is saved and sliced.
AfterFix(spec, anim, errors, fix, fixed) ==
  IF fixed.status = "threw"
  THEN [status |-> "threw", error |-> fixed.error,
        events |-> <<RunEvent("validate", anim.name, errors)>>,
        files |-> {}, frames |-> <<>>]
  ELSE SaveAndSlice(spec, anim, StripEvents(anim, errors, fix), fixed.buffer,
                    sliceStrip(Metadata(fixed.buffer), spec.frameWidth,
                               spec.frameHeight, anim.frames))

AfterValidation(spec, anim, strip, validation) ==
  AfterFix(spec, anim, validation.errors, NeedsFix(validation),
           FixResult(strip, NeedsFix(validation)))

\* generateAnimation from the validation of the strip (already of the
\* expected size, or as returned when no resize was needed) to its return or
\* throw: validate, fix when an error mentions 'transparent', save the strip,
\* slice, build the frame data.
ProcessStrip(spec, anim, strip) ==
  AfterValidation(spec, anim, strip,
                  validateSpriteStrip(strip, spec.frameWidth,
                                      spec.frameHeight, anim.frames))

\* What the command line starts from: whether the specification file exists,
\* what it parses to, whether OPENAI_API_KEY is set, and --dry-run.
RunInputs ==
  [exists : BOOLEAN, spec : SpecFiles, apiKey : BOOLEAN, dryRun : BOOLEAN]

\* The options generateSprites passes to packFrames.
RunPackOptions == [padding |-> 1, maxWidth |-> 2048, powerOfTwo |-> FALSE]

\* process.exit(1) after the error was logged.
Exit(message) == [status |-> "exit", code |-> 1, message |-> message]

\* An error thrown inside generateSprites, as the command's catch reports it.
GenerationFailed(message) == Exit("Generation failed: " \o message)

\* Variant: the loop leaves the last animation out.
LoopContinues_SkipLast(i, animationNames) == i < Len(animationNames) - 1

\* i < animationNames.length
LoopContinues(i, animationNames) == i < Len(animationNames)

RunInit ==
  /\ PackIdle
  /\ ImgIdle
  /\ SliceIdle
  /\ RetryIdle
  /\ runArgs \in RunInputs
  /\ runPc = "ready"
  /\ runIndex = 0
  /\ runLog = <<>>
  /\ runFiles = {}
  /\ runOutcome = Idle

\* The run ends: the command exits or generateSprites returns.
Finish(pc, outcome) ==
  /\ runPc' = pc
  /\ runOutcome' = outcome

\* The generate command up to the first awaited generation: the checks of the
\* command line, then generateSprites down to the start of its loop.
GenerateCommand ==
  /\ runPc = "ready"
  /\ LET configCheck == validateConfig(runArgs.apiKey)
         specValidation == validateSpec(runArgs.spec)
     IN IF ~runArgs.exists
        THEN Finish("failed", Exit("Spec file not found"))
        ELSE IF ~configCheck.isValid /\ ~runArgs.dryRun
        THEN Finish("failed", Exit("Configuration errors"))
        ELSE IF ~configCheck.isValid
        THEN Finish("failed",
                    GenerationFailed("Configuration invalid: "
                                       \o JoinErrors(configCheck.errors)))
        ELSE IF ~specValidation.isValid
        THEN Finish("failed",
                    GenerationFailed("Spec invalid: "
                                       \o JoinErrors(specValidation.errors)))
        ELSE IF runArgs.dryRun
        THEN Finish("done",
                    [status |-> "returned",
                     result |-> [dryRun |-> TRUE, spec |-> runArgs.spec]])
        ELSE Finish("loop", runOutcome)
  /\ UNCHANGED <<runArgs, runIndex, runLog, runFiles>>
  /\ UNCHANGED <<packVars, imgVars, sliceVars, retryVars>>

\* The loop takes its next animation: generateAnimation runs up to its await
\* of generateImageWithRetry.
StartAnimation ==
  /\ runPc = "loop"
  /\ LoopContinues(runIndex, runArgs.spec.animations)
  /\ runPc' = "generating"
  /\ runLog' = Append(runLog,
                 RunEvent("generate",
                          runArgs.spec.animations[runIndex + 1].name, <<>>))
  /\ UNCHANGED <<runArgs, runIndex, runFiles, runOutcome>>
  /\ UNCHANGED <<packVars, imgVars, sliceVars, retryVars>>

\* generateImageWithRetry throws: generateAnimation rethrows, generateSprites
\* rejects and the command exits.
GeneratorThrows(message) ==
  /\ runPc = "generating"
  /\ Finish("failed", GenerationFailed(message))
  /\ UNCHANGED <<runArgs, runIndex, runLog, runFiles>>
  /\ UNCHANGED <<packVars, imgVars, sliceVars, retryVars>>

\* generateAnimation fails after the image came back.
AnimationThrows(events, files, message) ==
  /\ Finish("failed", GenerationFailed(message))
  /\ runLog' = runLog \o events
  /\ runFiles' = runFiles \cup files
  /\ UNCHANGED <<runArgs, runIndex>>
  /\ UNCHANGED packVars

\* generateAnimation ended with r: a throw ends the run, returned frames are
\* pushed on the batch and the loop goes on.
CollectAnimation(before, r) ==
  IF r.status = "threw"
  THEN AnimationThrows(before \o r.events, r.files, r.error)
  ELSE /\ runLog' = runLog \o before \o r.events
       /\ runFiles' = runFiles \cup r.files
       /\ allFrames' = allFrames \o r.frames
       /\ runIndex' = runIndex + 1
       /\ runPc' = "loop"
       /\ UNCHANGED <<runArgs, runOutcome>>
       /\ UNCHANGED <<packOptions, packPc, packResult, packError>>

\* The rest of generateAnimation on a strip of the right size, and
\* allFrames.push(...frames) back in the loop.
AnimationContinues(strip, before) ==
  CollectAnimation(before,
                   ProcessStrip(runArgs.spec,
                                runArgs.spec.animations[runIndex + 1], strip))

\* generateImageWithRetry returns an image: the rest of generateAnimation.
GeneratorReturns(image) ==
  /\ runPc = "generating"
  /\ LET anim == runArgs.spec.animations[runIndex + 1]
         stripWidth == runArgs.spec.frameWidth * anim.frames
         stripHeight == runArgs.spec.frameHeight
     IN IF image.fault = "header"
        THEN AnimationThrows(<<>>, {}, DecodeMessage(image))
        ELSE IF NeedsResize(Metadata(image), stripWidth, stripHeight)
        THEN LET resized == Resize(image, stripWidth, stripHeight)
                 event == <<RunEvent("resize", anim.name, <<>>)>>
             IN IF resized.status = "threw"
                THEN AnimationThrows(event, {}, resized.error)
                ELSE \E strip \in resized.buffers :
                       AnimationContinues(strip, event)
        ELSE AnimationContinues(image, <<>>)
  /\ UNCHANGED <<imgVars, sliceVars, retryVars>>

\* After the loop: packFrames on the whole batch, then the three output
\* files are written.
PackAtlas ==
  /\ runPc = "loop"
  /\ ~LoopContinues(runIndex, runArgs.spec.animations)
  /\ LET r == packFrames(allFrames, RunPackOptions)
         characterName == CharacterName(runArgs.spec)
         files == [image |-> characterName \o ".png",
                   atlas |-> characterName \o ".json",
                   animations |-> "animations.json"]
     IN /\ packOptions' = RunPackOptions
        /\ runLog' = Append(runLog, RunEvent("pack", "", <<>>))
        /\ allFrames' = IF r.status = "threw" THEN allFrames ELSE r.frames
        /\ IF r.status = "threw"
           THEN /\ packPc' = "failed"
                /\ packError' = r.error
                /\ packResult' = NoResult
                /\ Finish("failed", GenerationFailed(r.error))
                /\ UNCHANGED runFiles
           ELSE /\ packPc' = "done"
                /\ packError' = ""
                /\ packResult' =
                     [r EXCEPT !.atlas.meta.image = characterName \o ".png"]
                /\ runFiles' =
                     runFiles \cup {files.image, files.atlas, files.animations}
                /\ Finish("done",
                          [status |-> "returned",
                           result |-> [success |-> TRUE,
                                       characterName |-> characterName,
                                       files |-> files,
                                       frameCount |-> Len(allFrames)]])
  /\ UNCHANGED <<runArgs, runIndex>>
  /\ UNCHANGED <<imgVars, sliceVars, retryVars>>

RunNext ==
  \/ GenerateCommand
  \/ StartAnimation
  \/ \E message \in GeneratorFailures : GeneratorThrows(message)
  \/ \E image \in GeneratedImages : GeneratorReturns(image)
  \/ PackAtlas

SpecRun == RunInit /\ [][RunNext]_vars

(* ---------------------------------------------------------------------- *)
(* Properties of the generate command                                      *)
(* ---------------------------------------------------------------------- *)

RunAnimations == runArgs.spec.animations

\* Position of an animation in the specification's order.
AnimationPosition(name) ==
  CHOOSE k \in 1..Len(RunAnimations) : RunAnimations[k].name = name

\* Indices of the history entries of one kind for one animation.
EventsOf(kind, name) ==
  { i \in DOMAIN runLog :
      runLog[i].kind = kind /\ runLog[i].animation = name }

PackEvents == { i \in DOMAIN runLog : runLog[i].kind = "pack" }

AtlasFiles ==
  { CharacterName(runArgs.spec) \o ".png",
    CharacterName(runArgs.spec) \o ".json", "animations.json" }

\* The run failed inside the loop over the animations.
AnimationFailed ==
  /\ runPc = "failed"
  /\ runLog # <<>>
  /\ runLog[Len(runLog)].kind # "pack"

\* C22: animations are processed strictly one after another (generation of
\* an animation begins only after the previous one was generated, validated
\* and sliced), packFrames is invoked exactly once per run and only after the
\* frames of every animation were collected, and when an animation fails it
\* is never invoked and none of the three output files is written.
C22_SequentialThenPackOnce ==
  /\ \A i, j \in DOMAIN runLog :
       (i < j /\ runLog[i].animation # "" /\ runLog[j].animation # "") =>
         AnimationPosition(runLog[i].animation)
           <= AnimationPosition(runLog[j].animation)
  /\ \A k \in 1..Len(RunAnimations) :
       \A g \in EventsOf("generate", RunAnimations[k].name) :
         /\ Cardinality(EventsOf("generate", RunAnimations[k].name)) = 1
         /\ k > 1 =>
              LET prev == RunAnimations[k - 1].name
              IN \E a \in EventsOf("generate", prev),
                    b \in EventsOf("validate", prev),
                    c \in EventsOf("slice", prev) :
                   a < b /\ b < c /\ c < g
  /\ Cardinality(PackEvents) <= 1
  /\ \A p \in PackEvents :
       /\ p = Len(runLog)
       /\ \A k \in 1..Len(RunAnimations) :
            /\ EventsOf("slice", RunAnimations[k].name) # {}
            /\ \E f \in 1..Len(allFrames) :
                 allFrames[f].animation = RunAnimations[k].name
  /\ (runPc = "done" /\ ~runArgs.dryRun) => Cardinality(PackEvents) = 1
  /\ AnimationFailed =>
       /\ PackEvents = {}
       /\ runFiles \cap AtlasFiles = {}
       /\ packPc = "collecting"
       /\ packResult = NoResult

\* A run over three animations, one of them resized and one repaired, ended
\* with the single packing call.
C22_Witness ==
  /\ runPc = "done"
  /\ Len(RunAnimations) = 3
  /\ Cardinality(PackEvents) = 1
  /\ EventsOf("removeBackground", "run_1") # {}
  /\ EventsOf("resize", "run") # {}
  /\ Len(allFrames) = 4
  /\ AtlasFiles \subseteq runFiles

\* Indices of the validations that ended with an invalid report.
FailedValidations ==
  { i \in DOMAIN runLog :
      runLog[i].kind = "validate" /\ runLog[i].errors # <<>> }

\* C23: when a generated strip fails validation, the next thing the run does
\* for that animation is a new generation; it does not go on with the image
\* that failed.
C23_Original ==
  \A i \in FailedValidations :
    i < Len(runLog) =>
      runLog[i + 1] = RunEvent("generate", runLog[i].animation, <<>>)

\* C24: whenever background removal is applied to a strip, the repaired
\* strip is validated again before it is sliced, and a strip whose last
\* validation failed is never sliced.
C24_Original ==
  \A s \in DOMAIN runLog :
    runLog[s].kind = "slice" =>
      LET name == runLog[s].animation
          validations == { v \in EventsOf("validate", name) : v < s }
      IN /\ \A r \in EventsOf("removeBackground", name) :
              r < s => \E v \in validations : r < v
         /\ validations # {}
         /\ \A v \in validations :
              (\A u \in validations : u <= v) => runLog[v].errors = <<>>

\* C25: no two frames of the batch built by the run carry the same name, so
\* the atlas holds one entry per frame.
C25_UniqueFrameNames ==
  /\ \A i, j \in 1..Len(allFrames) :
       i # j => allFrames[i].name # allFrames[j].name
  /\ (runPc = "done" /\ ~runArgs.dryRun) =>
       /\ Cardinality(DOMAIN packResult.atlas.frames) = Len(allFrames)
       /\ \A i \in 1..Len(allFrames) :
            /\ allFrames[i].name \in DOMAIN packResult.atlas.frames
            /\ allFrames[i].name =
                 allFrames[i].animation \o "_"
                   \o ToString(allFrames[i].frameIndex)

\* The batch of run (2 frames), run_1 and run_1_0 was packed: run_1 is a
\* frame of run, run_1_0 a frame of run_1.
C25_Witness ==
  /\ runPc = "done"
  /\ Len(allFrames) = 4
  /\ allFrames[2].name = "run_1"
  /\ allFrames[2].animation = "run"
  /\ allFrames[3].name = "run_1_0"
  /\ allFrames[3].animation = "run_1"
  /\ allFrames[4].name = "run_1_0_0"

\* The layout order of the finished call.
LayoutOrder == packResult.sortedFrames

\* Position of a frame of the layout order in the caller's array (frames of
\* a batch are distinct).
InputPosition(frame) ==
  CHOOSE i \in 1..Len(allFrames) : allFrames[i] = frame

LayoutOrderIsStableSort ==
  Done =>
    /\ Len(LayoutOrder) = Len(allFrames)
    /\ { LayoutOrder[i] : i \in 1..Len(LayoutOrder) } = InputFrames
    /\ \A i \in 1..(Len(LayoutOrder) - 1) :
         /\ LayoutOrder[i].height >= LayoutOrder[i + 1].height
         /\ LayoutOrder[i].height = LayoutOrder[i + 1].height =>
              InputPosition(LayoutOrder[i]) < InputPosition(LayoutOrder[i + 1])
    /\ \A i \in 1..Len(LayoutOrder) :
         packResult.image.composites[i].input = LayoutOrder[i].buffer

\* C26: the layout order of packFrames is the stable sort of the batch by
\* height descending (heights never increase along it, frames of equal
\* height keep their input order), and the call leaves the caller's array
\* as it was.
C26_StableHeightSort ==
  /\ []LayoutOrderIsStableSort
  /\ [][(packPc = "collecting" /\ packPc' # "collecting")
          => allFrames' = allFrames]_vars

\* A packed batch that was not in layout order and holds frames of equal
\* height.
C26_Witness ==
  /\ Done
  /\ Len(allFrames) = 4
  /\ allFrames[1].height < allFrames[2].height
  /\ allFrames[3].height = allFrames[4].height
  /\ LayoutOrder # allFrames

\* The first frame of the layout order does not fit between the paddings of
\* an empty row.
FirstFrameTooWide ==
  LayoutOrder[1].width + 2 * packOptions.padding > packOptions.maxWidth

\* C27 as stated: the first frame in layout order is placed at
\* (padding, padding), also when it is wider than maxWidth.
C27_Original ==
  Done => Positions[1] = [x |-> packOptions.padding, y |-> packOptions.padding]

\* C27: the first frame in layout order is placed at (padding, padding) when
\* it fits between the paddings of a row of maxWidth; a frame that does not
\* is preceded by a row break and placed at (padding, 2 * padding).  Every
\* later frame either continues the row of its predecessor or starts the
\* next row because it does not fit behind it.
C27_FirstFramePlacement ==
  Done =>
    /\ Positions[1].x = packOptions.padding
    /\ Positions[1].y = IF FirstFrameTooWide THEN 2 * packOptions.padding
                        ELSE packOptions.padding
    /\ \A i \in 2..Len(Positions) :
         LET endOfPrev == Positions[i - 1].x + LayoutOrder[i - 1].width
                            + packOptions.padding
             fits == endOfPrev + LayoutOrder[i].width + packOptions.padding
                       <= packOptions.maxWidth
         IN IF fits
            THEN Positions[i] = [x |-> endOfPrev, y |-> Positions[i - 1].y]
            ELSE /\ Positions[i].x = packOptions.padding
                 /\ Positions[i].y > Positions[i - 1].y

\* A batch whose tallest frame is too wide for a row, packed with padding.
C27_Witness ==
  /\ Done
  /\ FirstFrameTooWide
  /\ packOptions.padding = 2
  /\ Len(allFrames) >= 2
  /\ Positions[1] = [x |-> 2, y |-> 4]

\* The report of validation v is invalid because of the border check.
BorderCheckFailed(v) ==
  \E k \in 1..Len(runLog[v].errors) : runLog[v].errors[k] = BackgroundError

\* removeBackground was called on the strip of validation v.
BackgroundRemovedAfter(v) ==
  /\ v < Len(runLog)
  /\ runLog[v + 1] = RunEvent("removeBackground", runLog[v].animation, <<>>)

\* C28: generateAnimation applies removeBackground to a strip exactly when
\* the strip's report is invalid because of the border-transparency check; a
\* report with structural errors only, or a valid report, never leads to it.
C28_FixOnlyTransparency ==
  \A i \in DOMAIN runLog :
    /\ runLog[i].kind = "validate" =>
         (BackgroundRemovedAfter(i) <=> BorderCheckFailed(i))
    /\ runLog[i].kind = "removeBackground" =>
         /\ i > 1
         /\ runLog[i - 1].kind = "validate"
         /\ runLog[i - 1].animation = runLog[i].animation

\* One run that repaired a strip failing the border check, left a strip
\* without alpha channel alone, and left a valid strip alone.
C28_Witness ==
  /\ \E i \in DOMAIN runLog :
       /\ runLog[i].kind = "validate"
       /\ BorderCheckFailed(i)
       /\ BackgroundRemovedAfter(i)
  /\ \E i \in DOMAIN runLog :
       /\ runLog[i].kind = "validate"
       /\ \E k \in 1..Len(runLog[i].errors) : runLog[i].errors[k] = AlphaError
       /\ ~BackgroundRemovedAfter(i)
  /\ \E i \in DOMAIN runLog :
       /\ runLog[i].kind = "validate"
       /\ runLog[i].errors = <<>>
       /\ ~BackgroundRemovedAfter(i)

\* The frames of the batch that belong to one animation, in batch order.
FramesOf(name) == SelectSeq(allFrames, LAMBDA f : f.animation = name)

\* C29: for every animation generateAnimation completed, the batch holds
\* exactly the configured number of frames of it, with frameIndex 0, 1, ...,
\* frames - 1 and the frame size of the specification, whatever the size of
\* the image the generator returned.
C29_FrameCount ==
  \A k \in 1..Len(RunAnimations) :
    k <= runIndex =>
      LET anim == RunAnimations[k]
          frames == FramesOf(anim.name)
      IN /\ Len(frames) = anim.frames
         /\ \A i \in 1..Len(frames) :
              /\ frames[i].frameIndex = i - 1
              /\ frames[i].width = runArgs.spec.frameWidth
              /\ frames[i].height = runArgs.spec.frameHeight
              /\ frames[i].buffer =
                   Extract((i - 1) * runArgs.spec.frameWidth, 0,
                           runArgs.spec.frameWidth, runArgs.spec.frameHeight)

\* Both animations of hero completed, one from an image that had to be
\* resized and one from a strip that was repaired.
C29_Witness ==
  /\ runArgs.spec.name = "hero"
  /\ runIndex = 2
  /\ EventsOf("resize", "idle") # {}
  /\ EventsOf("resize", "walk") = {}
  /\ EventsOf("removeBackground", "walk") # {}
  /\ Len(FramesOf("idle")) = 2
  /\ Len(FramesOf("walk")) = 2

\* A dry run on an existing, valid specification file without an API key.
DryRunWithoutKey ==
  /\ runArgs.dryRun
  /\ runArgs.exists
  /\ validateSpec(runArgs.spec).isValid
  /\ ~runArgs.apiKey

\* C30: a dry run with a valid specification and no API key configured ends
\* successfully with the dry-run result; it generates nothing, packs nothing
\* and writes no file.
C30_Original ==
  (DryRunWithoutKey /\ runPc # "ready") =>
    /\ runPc = "done"
    /\ runOutcome = [status |-> "returned",
                     result |-> [dryRun |-> TRUE, spec |-> runArgs.spec]]
    /\ runLog = <<>>
    /\ runFiles = {}
    /\ packPc = "collecting"

\* The same with the API key set.
DryRunWithKeySucceeds ==
  (runArgs.dryRun /\ runArgs.exists /\ validateSpec(runArgs.spec).isValid
     /\ runArgs.apiKey /\ runPc # "ready") =>
    /\ runPc = "done"
    /\ runOutcome = [status |-> "returned",
                     result |-> [dryRun |-> TRUE, spec |-> runArgs.spec]]
    /\ runLog = <<>>
    /\ runFiles = {}
    /\ packPc = "collecting"

====
